---- MODULE Spec2Model ----
(***************************************************************************)
(* sqlm: the migration engine of migration.go.                             *)
(*                                                                         *)
(* The database is the table migration_schema_history (a set of rows with  *)
(* primary key (group, version)), the fact whether the table exists, and   *)
(* the version banner the server reports.  Every goroutine that calls      *)
(* Apply has an activation frame; the steps of Apply are the database      *)
(* calls it issues, each together with the local computation that follows  *)
(* it up to the next database call.                                        *)
(*                                                                         *)
(* Go strings are sequences of one-character strings.  The columns script, *)
(* applied_at and execution_duration are written by Apply but never read   *)
(* by it; they are left out of the rows.                                   *)
(*                                                                         *)
(* The functions without state (hash, the parser of parse.go, the file     *)
(* name versions) and the wrapper MustMigrate have specifications of their *)
(* own further down; the variable aux is their workbench and stays Off in  *)
(* the specification of Apply.                                             *)
(***************************************************************************)
EXTENDS Integers, Sequences, FiniteSets, TLC

VARIABLES banner, table, history, mutex, frame, ran, last, aux

vars == <<banner, table, history, mutex, frame, ran, last, aux>>

----------------------------------------------------------------------------
(* Bounds and input pools                                                  *)

MaxMigs == 2

Procs == {"c1", "c2"}

(* The (group, version) pairs of the supplied migrations: two versions of  *)
(* each of two groups, one of them negative.                               *)
Identities == {<<"g", 1>>, <<"g", 2>>, <<"h", -1>>, <<"h", 1>>}

Groups == {id[1] : id \in Identities}

Scripts == { << <<"a">> >>, << <<"a">>, <<"b">> >> }

Banners ==
    { <<"P","o","s","t","g","r","e","S","Q","L"," ","1","2">>,
      <<"1","0",".","4","-","M","a","r","i","a","D","B">>,
      <<"S","Q","L","i","t","e"," ","3">> }

----------------------------------------------------------------------------
(* Constants of the package                                                *)

SQL == "sql"
Success == "success"
Failed == "failed"
Pending == "pending"
Executing == "executing"
PostgreSQL == "postgresql"
MySQL == "mysql"

Migration ==
    {[Group |-> id[1], Version |-> id[2], Statements |-> sc] :
        id \in Identities, sc \in Scripts}

HistoryEntry(grp, ver, sum, status, log) ==
    [Group |-> grp, Version |-> ver, Type |-> SQL, Checksum |-> sum,
     Status |-> status, Log |-> log]

Nil == <<"nil">>

Range(s) == {s[i] : i \in 1..Len(s)}

Free == "free"

----------------------------------------------------------------------------
(* Strings                                                                 *)

Upper == <<"A","B","C","D","E","F","G","H","I","J","K","L","M",
           "N","O","P","Q","R","S","T","U","V","W","X","Y","Z">>
Lower == <<"a","b","c","d","e","f","g","h","i","j","k","l","m",
           "n","o","p","q","r","s","t","u","v","w","x","y","z">>

LowerRune(c) ==
    IF \E i \in 1..Len(Upper) : Upper[i] = c
    THEN Lower[CHOOSE i \in 1..Len(Upper) : Upper[i] = c]
    ELSE c

ToLower(s) == [i \in 1..Len(s) |-> LowerRune(s[i])]

Contains(s, sub) ==
    \E i \in 0..(Len(s) - Len(sub)) :
        \A j \in 1..Len(sub) : s[i + j] = sub[j]

(* Variant: the elements are concatenated without the separator.          *)
RECURSIVE JoinNoSeparator(_, _)
JoinNoSeparator(elems, sep) ==
    IF elems = <<>> THEN <<>> ELSE Head(elems) \o JoinNoSeparator(Tail(elems), sep)

RECURSIVE Join(_, _)
Join(elems, sep) ==
    IF Len(elems) = 0 THEN <<>>
    ELSE IF Len(elems) = 1 THEN elems[1]
    ELSE elems[1] \o sep \o Join(Tail(elems), sep)

(* SHA-256 followed by hex encoding: a function of the bytes, taken as     *)
(* collision-free.                                                         *)
Sha256Hex(bytes) == <<"sha256">> \o bytes

hash(m) == Sha256Hex(Join(m.Statements, <<";">>))

----------------------------------------------------------------------------
(* The database                                                            *)

DbError == <<"db error">>

SameKey(e, grp, ver) == e.Group = grp /\ e.Version = ver

(* INSERT INTO migration_schema_history: the primary key (group, version)  *)
(* of the table rejects a second row with the same key.                    *)
KeyTaken(rows, e) == \E r \in rows : SameKey(r, e.Group, e.Version)

DbInsert(rows, e) == rows \cup {e}

(* Variant: the update changes no row.                                     *)
DbUpdateLost(rows, e) == rows

(* UPDATE ... WHERE "group"=? and "version"=?: every non-key column of the *)
(* matching row is overwritten; no matching row is no error.               *)
DbUpdate(rows, e) ==
    {r \in rows : ~SameKey(r, e.Group, e.Version)}
        \cup {e2 \in {e} : KeyTaken(rows, e)}

----------------------------------------------------------------------------
(* Local computations of Apply                                             *)

(* version(): the banner, lower-cased, is searched for the three names.    *)
(* Variant: an unknown banner falls back to MySQL.                         *)
versionFallback(str) ==
    IF Contains(ToLower(str), <<"p","o","s","t","g","r","e","s","q","l">>)
    THEN <<PostgreSQL, Nil>>
    ELSE <<MySQL, Nil>>

version(str) ==
    LET s == ToLower(str) IN
    IF Contains(s, <<"p","o","s","t","g","r","e","s","q","l">>)
        THEN <<PostgreSQL, Nil>>
    ELSE IF Contains(s, <<"m","a","r","i","a","d","b">>)
        THEN <<MySQL, Nil>>
    ELSE IF Contains(s, <<"m","y","s","q","l">>)
        THEN <<MySQL, Nil>>
    ELSE <<"", <<"unknown database type", s>>>>

(* for _, entry := range entries { if entry.Status != Success ... }        *)
(* Variant: only failed rows count as dirty.                               *)
IsDirtyFailedOnly(e) == e.Status = Failed

IsDirty(e) == e.Status # Success

DirtyEntries(entries) == {e \in entries : IsDirty(e)}

(* The inner loop of the partition: the history row of a migration.        *)
Matches(m, entries) == {e \in entries : SameKey(e, m.Group, m.Version)}

(* Variant: the checksums are not compared.                                *)
ModifiedNever(m, entries) == FALSE

Modified(m, entries) == \E e \in Matches(m, entries) : hash(m) # e.Checksum

(* Variant: alreadyApplied is never set.                                   *)
AlreadyAppliedNever(m, entries) == FALSE

AlreadyApplied(m, entries) == Matches(m, entries) # {}

(* The migrations in front of the first modified one are partitioned, the  *)
(* modified one aborts the call.                                           *)
ModifiedIndexes(migs, entries) ==
    {i \in 1..Len(migs) : Modified(migs[i], entries)}

(* groups[migration.Group] = append(groups[migration.Group], migration)    *)
Candidates(migs, entries, grp) ==
    SelectSeq(migs, LAMBDA m : m.Group = grp /\ ~AlreadyApplied(m, entries))

PendingGroups(migs, entries) ==
    {grp \in Groups : Candidates(migs, entries, grp) # <<>>}

(* sort.Slice by Version: not stable, any order of equal versions.         *)
IsSortedByVersion(s) ==
    \A i \in 1..Len(s), j \in 1..Len(s) :
        i < j => ~(s[j].Version < s[i].Version)

Orders(s) ==
    {[i \in 1..Len(s) |-> s[f[i]]] : f \in Permutations(1..Len(s))}

(* Variant: the candidates are left in the supplied order.                 *)
SortSliceOmitted(s) == {s}

SortSlice(s) == {t \in Orders(s) : IsSortedByVersion(t)}

(* The uniqueness loop: strictMonotonicVersion starts at -1 and is not     *)
(* assigned in the loop.                                                   *)
RECURSIVE UniqueCheck(_, _)
UniqueCheck(candidates, strictMonotonicVersion) ==
    IF candidates = <<>> THEN Nil
    ELSE IF Head(candidates).Version <= strictMonotonicVersion
        THEN <<"the version must be >=0 and unique", Head(candidates)>>
    ELSE UniqueCheck(Tail(candidates), strictMonotonicVersion)

SortedGroups(migs, entries) ==
    LET pend == PendingGroups(migs, entries)
        all  == UNION {SortSlice(Candidates(migs, entries, grp)) : grp \in pend}
    IN  {gs \in [pend -> all] :
            \A grp \in pend : gs[grp] \in SortSlice(Candidates(migs, entries, grp))}

VersionErrors(gs) ==
    {UniqueCheck(gs[grp], -1) : grp \in DOMAIN gs} \ {Nil}

----------------------------------------------------------------------------
(* Activation frames of Apply                                              *)

NoEntry == HistoryEntry("", 0, <<>>, "", <<>>)

NoGroups == [grp \in {} |-> <<>>]

NoMigration == [Group |-> "", Version |-> 0, Statements |-> <<>>]

(* pc .. err are the locals of Apply; h0 .. again record what the call     *)
(* has done so far and what it found when it took the lock: nVersion       *)
(* counts the SELECT version() queries, marks holds the placeholder styles *)
(* of the inserts and updates sent.                                        *)
IdleFrame ==
    [pc |-> "idle", migrations |-> <<>>, dbType |-> "", entries |-> {},
     groups |-> NoGroups, todo |-> {}, candidates |-> <<>>,
     migration |-> NoMigration, entry |-> NoEntry, stmts |-> <<>>, err |-> Nil,
     h0 |-> {}, t0 |-> FALSE, again |-> FALSE, nQuery |-> 0, nExec |-> 0,
     nStmt |-> 0, nWrite |-> 0, started |-> <<>>, faults |-> {},
     nVersion |-> 0, marks |-> {}]

Inputs == UNION {[1..n -> Migration] : n \in 0..MaxMigs}


LeftoverRows ==
    {HistoryEntry(m.Group, m.Version, hash(m), st, <<>>) :
        m \in {n \in Migration : n.Version >= 0},
        st \in {Pending, Executing, Failed}}

(* The workbench of the other specifications, unused by Apply.            *)
Off == [kind |-> "off"]

Init ==
    /\ banner \in Banners
    /\ \/ table = FALSE /\ history = {}
       \/ table = TRUE /\ history \in {{r} : r \in LeftoverRows}
    /\ mutex = Free
    /\ frame = [p \in Procs |-> IdleFrame]
    /\ ran = [id \in Identities |-> 0]
    /\ last = [ok |-> FALSE, migrations |-> {}]
    /\ aux = Off

Set(p, f) == frame' = [frame EXCEPT ![p] = f]

(* return err: the frame keeps the error until the deferred Unlock runs.   *)
Ret(f, err) == [f EXCEPT !.pc = "ret", !.err = err]

(* A goroutine calls Apply and reaches mutex.Lock().  The arguments of the *)
(* call are values Apply first reads in the loop of line 136; the frame    *)
(* holds them from the step that reads them (History).                     *)
Call(p) ==
    /\ frame[p].pc = "idle"
    /\ Set(p, [IdleFrame EXCEPT !.pc = "lock"])
    /\ UNCHANGED <<banner, table, history, mutex, ran, last, aux>>

(* Variant: Lock returns without waiting for the holder.                   *)
CanLockAlways(p) == TRUE

CanLock(p) == mutex = Free

(* mutex.Lock() returns.                                                   *)
Lock(p) ==
    /\ frame[p].pc = "lock"
    /\ CanLock(p)
    /\ mutex' = p
    /\ Set(p, [frame[p] EXCEPT !.pc = "version", !.h0 = history, !.t0 = table])
    /\ UNCHANGED <<banner, table, history, ran, last, aux>>

(* dbType, err := version(db)                                              *)
Version(p) ==
    LET f == [frame[p] EXCEPT !.nQuery = @ + 1, !.nVersion = @ + 1] IN
    /\ frame[p].pc = "version"
    /\ \/ Set(p, Ret([f EXCEPT !.faults = @ \cup {"version"}],
                     <<"unknown database type", DbError>>))
       \/ LET r == version(banner) IN
          IF r[2] # Nil
          THEN Set(p, Ret(f, <<"unknown database type", r[2]>>))
          ELSE Set(p, [f EXCEPT !.pc = "create", !.dbType = r[1]])
    /\ UNCHANGED <<banner, table, history, mutex, ran, last, aux>>

(* CreateTable(db): CREATE TABLE IF NOT EXISTS                             *)
CreateTable(p) ==
    LET f == [frame[p] EXCEPT !.nExec = @ + 1] IN
    /\ frame[p].pc = "create"
    /\ \/ /\ Set(p, Ret([f EXCEPT !.faults = @ \cup {"create"}],
                        <<"cannot create migration table", DbError>>))
          /\ UNCHANGED table
       \/ /\ Set(p, [f EXCEPT !.pc = "history"])
          /\ table' = TRUE
    /\ UNCHANGED <<banner, history, mutex, ran, last, aux>>

(* Lines 123-169: the history is loaded, checked for dirty rows, the       *)
(* supplied migrations are partitioned and the candidates validated.       *)
AfterHistory(f, entries) ==
    LET migs == f.migrations
        g    == [f EXCEPT !.entries = entries]
    IN
    IF DirtyEntries(entries) # {}
    THEN {Ret(g, <<"migrations are dirty", e>>) : e \in DirtyEntries(entries)}
    ELSE IF ModifiedIndexes(migs, entries) # {}
    THEN LET i == CHOOSE i \in ModifiedIndexes(migs, entries) :
                    \A j \in ModifiedIndexes(migs, entries) : i <= j
         IN {Ret(g, <<"an already applied migration has been modified", migs[i]>>)}
    ELSE UNION {
            IF VersionErrors(gs) # {}
            THEN {Ret(g, e) : e \in VersionErrors(gs)}
            ELSE IF DOMAIN gs = {}
            THEN {Ret(g, Nil)}
            ELSE {[g EXCEPT !.pc = "insert", !.groups = gs, !.todo = DOMAIN gs]}
            : gs \in SortedGroups(migs, entries)}

HistoryFrom(p, inputs) ==
    /\ frame[p].pc = "history"
    /\ \E migs \in inputs :
        LET f == [frame[p] EXCEPT !.nQuery = @ + 1, !.migrations = migs,
                     !.again = (last.ok /\ last.migrations = Range(migs))]
        IN
        \/ Set(p, Ret([f EXCEPT !.faults = @ \cup {"history"}],
                      <<"cannot get history", DbError>>))
        \/ \E g \in AfterHistory(f, history) : Set(p, g)
    /\ UNCHANGED <<banner, table, history, mutex, ran, last, aux>>

History(p) == HistoryFrom(p, Inputs)

(* The two range loops of lines 172-173: the groups of the map in any      *)
(* order, the candidates of a group in slice order.                        *)
NextCandidates(f) ==
    IF f.candidates # <<>>
    THEN {[m |-> Head(f.candidates), rest |-> Tail(f.candidates), todo |-> f.todo]}
    ELSE {[m |-> Head(f.groups[grp]), rest |-> Tail(f.groups[grp]),
           todo |-> f.todo \ {grp}] : grp \in f.todo}

(* Variant: a table without the primary key.                               *)
InsertNeverRejected(rows, e) == FALSE

InsertRejected(rows, e) == KeyTaken(rows, e)

(* entry.Log = err.Error(); entry.Status = Failed                          *)
(* Variant: the status is left as it was.                                  *)
FailedEntryLogOnly(entry, errText) == [entry EXCEPT !.Log = errText]

FailedEntry(entry, errText) == [entry EXCEPT !.Log = errText, !.Status = Failed]

(* insert() and update(): the statement text is chosen by the dialect; the *)
(* two texts differ in their placeholders.                                 *)
insertStmt(dbtype) ==
    CASE dbtype = MySQL -> "?"
      [] dbtype = PostgreSQL -> "$n"
      [] OTHER -> ""

(* Variant: update always sends the PostgreSQL text.                       *)
updateStmtDollar(dbtype) == "$n"

updateStmt(dbtype) ==
    CASE dbtype = MySQL -> "?"
      [] dbtype = PostgreSQL -> "$n"
      [] OTHER -> ""

(* Variant: the entry is written with the status pending.                  *)
ExecutingEntryPending(m) ==
    HistoryEntry(m.Group, m.Version, hash(m), Pending, <<>>)

(* Lines 174-183: entry := HistoryEntry{..., Status: Executing}            *)
ExecutingEntry(m) == HistoryEntry(m.Group, m.Version, hash(m), Executing, <<>>)

(* Lines 174-188: the entry of the next candidate is inserted as executing *)
Insert(p) ==
    /\ frame[p].pc = "insert"
    /\ \E c \in NextCandidates(frame[p]) :
        LET entry == ExecutingEntry(c.m)
            f == [frame[p] EXCEPT !.candidates = c.rest, !.todo = c.todo,
                     !.migration = c.m, !.entry = entry,
                     !.nExec = @ + 1, !.nWrite = @ + 1,
                     !.marks = @ \cup {insertStmt(frame[p].dbType)}]
        IN
        \/ /\ Set(p, Ret([f EXCEPT !.faults = @ \cup {"insert"}],
                         <<"failed to insert history entry", DbError>>))
           /\ UNCHANGED history
        \/ /\ InsertRejected(history, entry)
           /\ Set(p, Ret(f, <<"failed to insert history entry", <<"duplicate key">>>>))
           /\ UNCHANGED history
        \/ /\ ~InsertRejected(history, entry)
           /\ history' = DbInsert(history, entry)
           /\ Set(p, [f EXCEPT !.pc = "execute", !.stmts = c.m.Statements,
                         !.started = Append(@, c.m)])
    /\ UNCHANGED <<banner, table, mutex, ran, last, aux>>

(* Variant: the error of a statement is noted and the loop of execute()    *)
(* goes on with the next statement.                                        *)
ExecuteFailedGoesOn(f, m, inner) ==
    [f EXCEPT !.stmts = Tail(@), !.faults = @ \cup {"stmt"}]

(* Lines 270-271 and 190-192: execute returns the error of the statement,  *)
(* Apply prepares the failed entry and the error it will return.           *)
ExecuteFailed(f, m, inner) ==
    [f EXCEPT !.pc = "markFailed",
              !.entry = FailedEntry(@, inner),
              !.err = <<"failed to execute migration", m.Group, m.Version, inner>>,
              !.faults = @ \cup {"stmt"}]

(* execute(): one statement of the migration is sent to the database; on   *)
(* its error lines 191-192 prepare the failed entry.                       *)
ExecStmt(p) ==
    LET m     == frame[p].migration
        stmt  == Head(frame[p].stmts)
        inner == <<"failed to execute statement", stmt, DbError>>
        f     == [frame[p] EXCEPT !.nExec = @ + 1, !.nStmt = @ + 1]
    IN
    /\ frame[p].pc = "execute"
    /\ frame[p].stmts # <<>>
    /\ ran' = IF frame[p].stmts = m.Statements
              THEN [ran EXCEPT ![<<m.Group, m.Version>>] = @ + 1]
              ELSE ran
    /\ \/ Set(p, ExecuteFailed(f, m, inner))
       \/ Set(p, [f EXCEPT !.stmts = Tail(@)])
    /\ UNCHANGED <<banner, table, history, mutex, last, aux>>

(* Lines 193-194: the row is marked failed; the error of this update is    *)
(* dropped, the error of execute is returned.                              *)
UpdateFailed(p) ==
    LET f == [frame[p] EXCEPT !.nExec = @ + 1, !.nWrite = @ + 1, !.pc = "ret",
                 !.marks = @ \cup {updateStmt(frame[p].dbType)}]
    IN
    /\ frame[p].pc = "markFailed"
    /\ \/ /\ Set(p, [f EXCEPT !.faults = @ \cup {"update"}])
          /\ UNCHANGED history
       \/ /\ Set(p, f)
          /\ history' = DbUpdate(history, frame[p].entry)
    /\ UNCHANGED <<banner, table, mutex, ran, last, aux>>

(* Variant: the status of the entry is left as it was.                     *)
SuccessEntryUnchanged(entry) == entry

(* line 197: entry.Status = Success                                        *)
SuccessEntry(entry) == [entry EXCEPT !.Status = Success]

(* Lines 197-205: all statements ran; the row is marked success and the    *)
(* loops go on, or Apply returns nil after the last candidate.             *)
UpdateSuccess(p) ==
    LET entry == SuccessEntry(frame[p].entry)
        f == [frame[p] EXCEPT !.nExec = @ + 1, !.nWrite = @ + 1, !.entry = entry,
                 !.marks = @ \cup {updateStmt(frame[p].dbType)}]
    IN
    /\ frame[p].pc = "execute"
    /\ frame[p].stmts = <<>>
    /\ \/ /\ Set(p, Ret([f EXCEPT !.faults = @ \cup {"update"}],
                        <<"failed to update history migration", DbError>>))
          /\ UNCHANGED history
       \/ /\ history' = DbUpdate(history, entry)
          /\ IF f.candidates = <<>> /\ f.todo = {}
             THEN Set(p, Ret(f, Nil))
             ELSE Set(p, [f EXCEPT !.pc = "insert"])
    /\ UNCHANGED <<banner, table, mutex, ran, last, aux>>

(* Variant: Apply returns without unlocking.                               *)
UnlockSkipped(holder) == holder

(* defer mutex.Unlock()                                                    *)
Unlock(holder) == Free

(* Apply returns: the deferred mutex.Unlock() runs.                        *)
Return(p) ==
    /\ frame[p].pc = "ret"
    /\ mutex' = Unlock(p)
    /\ last' = IF frame[p].err = Nil
               THEN [ok |-> TRUE, migrations |-> Range(frame[p].migrations)]
               ELSE [ok |-> FALSE, migrations |-> {}]
    /\ Set(p, IdleFrame)
    /\ UNCHANGED <<banner, table, history, ran, aux>>

Next ==
    \E p \in Procs :
        \/ Call(p)
        \/ Lock(p)
        \/ Version(p)
        \/ CreateTable(p)
        \/ History(p)
        \/ Insert(p)
        \/ ExecStmt(p)
        \/ UpdateFailed(p)
        \/ UpdateSuccess(p)
        \/ Return(p)

Spec == Init /\ [][Next]_vars

----------------------------------------------------------------------------
(* The functions without state                                             *)
(*                                                                         *)
(* Each has a specification that draws its arguments in the initial state  *)
(* and applies it in one step.  Apply's variables stay at rest.            *)

engine == <<banner, table, history, mutex, frame, ran, last>>

AtRest ==
    /\ banner = <<>>
    /\ table = FALSE
    /\ history = {}
    /\ mutex = Free
    /\ frame = [p \in Procs |-> IdleFrame]
    /\ ran = [id \in Identities |-> 0]
    /\ last = [ok |-> FALSE, migrations |-> {}]

(* hash(): Migration.Statements is any []string the caller supplies.       *)
MaxStmts == 2

Texts ==
    { <<>>, <<"a">>, <<"b">>, <<"a", "b">>, <<";">>, <<"a", ";", "b">> }

StatementLists == UNION {[1..n -> Texts] : n \in 0..MaxStmts}

WithStatements(stmts) == [Group |-> "g", Version |-> 1, Statements |-> stmts]

InitHash ==
    /\ AtRest
    /\ aux \in {[kind |-> "hash", S |-> s, T |-> t, sums |-> <<>>] :
                    s \in StatementLists, t \in StatementLists}

Checksums ==
    /\ aux.kind = "hash"
    /\ aux.sums = <<>>
    /\ aux' = [aux EXCEPT !.sums = <<hash(WithStatements(aux.S)),
                                     hash(WithStatements(aux.T))>>]
    /\ UNCHANGED engine

SpecHash == InitHash /\ [][Checksums]_vars

(* parseStatementsFromString (parse.go): the text of a script is split     *)
(* into statements.                                                        *)
MaxTextLen == 5

(* The runes of the scripts: a letter, the separator, and white space the  *)
(* scanner folds (\t \n \r), writes as it is (\f) or compares with (' ').  *)
Runes == {"a", ";", " ", "\t", "\n", "\r", "\f"}

ScriptTexts(maxLen) == UNION {[1..n -> Runes] : n \in 0..maxLen}

(* unicode.IsSpace on the runes above                                      *)
IsSpace(r) == r \in {" ", "\t", "\n", "\r", "\f"}

(* strings.TrimSpace                                                       *)
RECURSIVE TrimLeft(_)
TrimLeft(s) == IF s # <<>> /\ IsSpace(Head(s)) THEN TrimLeft(Tail(s)) ELSE s

RECURSIVE TrimRight(_)
TrimRight(s) ==
    IF s # <<>> /\ IsSpace(s[Len(s)]) THEN TrimRight(SubSeq(s, 1, Len(s) - 1)) ELSE s

TrimSpace(s) == TrimRight(TrimLeft(s))

(* commentsRegex.ReplaceAllString(str, " "): a text in which nothing       *)
(* matches is returned as it is; no text over Runes holds a comment.       *)
ReplaceAllComments(str) == str

(* Variant: a space after a space is written like any other rune.          *)
SkipRuneNever(lastRune, r) == FALSE

(* line 147: lastRune == ' ' && r == ' '                                   *)
SkipRune(lastRune, r) == lastRune = " " /\ r = " "

(* The loop of lines 136-153 over the remaining runes, with the builder    *)
(* sb, lastRune and the statements appended so far; lines 154-157 at the   *)
(* end of the text.  sb.Reset() of line 142 leaves lastRune as it is.      *)
RECURSIVE scanRunes(_, _, _, _)
scanRunes(raw, sb, lastRune, stmts) ==
    IF raw = <<>>
    THEN IF Len(TrimSpace(sb)) > 0
         THEN [stmts |-> <<>>, err |-> <<"non terminated sql statement">>]
         ELSE [stmts |-> stmts, err |-> Nil]
    ELSE IF Head(raw) = ";"
    THEN LET tmp == TrimSpace(sb) IN
         scanRunes(Tail(raw), <<>>, lastRune,
                   IF Len(tmp) > 0 THEN Append(stmts, tmp) ELSE stmts)
    ELSE LET r == IF Head(raw) \in {"\r", "\n", "\t"} THEN " " ELSE Head(raw) IN
         IF SkipRune(lastRune, r)
         THEN scanRunes(Tail(raw), sb, lastRune, stmts)
         ELSE scanRunes(Tail(raw), Append(sb, r), r, stmts)

(* var lastRune rune: the zero rune                                        *)
parseStatementsFromString(str) ==
    scanRunes(ReplaceAllComments(str), <<>>, "\\0", <<>>)

InitSplit ==
    /\ AtRest
    /\ aux \in {[kind |-> "split", text |-> t, out |-> <<>>] : t \in ScriptTexts(MaxTextLen)}

Split ==
    /\ aux.kind = "split"
    /\ aux.out = <<>>
    /\ aux' = [aux EXCEPT !.out = <<parseStatementsFromString(aux.text)>>]
    /\ UNCHANGED engine

SpecSplit == InitSplit /\ [][Split]_vars

----------------------------------------------------------------------------
(* Apply on the banners of many servers                                    *)
(*                                                                         *)
(* One goroutine applies one migration; the banner is any text of up to    *)
(* MaxWords of the words below, so that the names version() looks for      *)
(* appear whole, in parts and side by side.                                *)
MaxWords == 3

Words ==
    { <<"P","o","s","t","g","r","e","S","Q","L">>,
      <<"P","o","s","t","g","r","e">>,
      <<"S","Q","L">>,
      <<"M","y","S","Q","L">>,
      <<"M","y">>,
      <<"M","a","r","i","a","D","B">>,
      <<"1","2"," ">> }

RECURSIVE Concat(_)
Concat(ws) == IF ws = <<>> THEN <<>> ELSE Head(ws) \o Concat(Tail(ws))

BannerPool(maxWords) ==
    {Concat(ws) : ws \in UNION {[1..n -> Words] : n \in 0..maxWords}}

OneMigration == { << [Group |-> "g", Version |-> 1, Statements |-> << <<"a">> >>] >> }

InitDialect ==
    /\ banner \in BannerPool(MaxWords)
    /\ table = FALSE
    /\ history = {}
    /\ mutex = Free
    /\ frame = [p \in Procs |-> IdleFrame]
    /\ ran = [id \in Identities |-> 0]
    /\ last = [ok |-> FALSE, migrations |-> {}]
    /\ aux = Off

NextDialect ==
    \E p \in {"c1"} :
        \/ Call(p)
        \/ Lock(p)
        \/ Version(p)
        \/ CreateTable(p)
        \/ HistoryFrom(p, OneMigration)
        \/ Insert(p)
        \/ ExecStmt(p)
        \/ UpdateFailed(p)
        \/ UpdateSuccess(p)
        \/ Return(p)

SpecDialect == InitDialect /\ [][NextDialect]_vars

----------------------------------------------------------------------------
(* MustMigrate                                                             *)
(*                                                                         *)
(* The database has full transaction support (README): table, history and  *)
(* ran are what the connection of the caller sees, aux.committed is what   *)
(* the database holds for everybody else.  Inside a transaction the two    *)
(* differ until Commit makes the view the committed state or Rollback (or  *)
(* the loss of the transaction) makes the committed state the view again.  *)
(* aux.before is the committed state at BeginTx, aux.undone the view the   *)
(* last Rollback discarded.  One goroutine calls MustMigrate; after a      *)
(* panic the process is started again.                                     *)
View == [table |-> table, history |-> history, ran |-> ran]

Restore(db) ==
    /\ table' = db.table
    /\ history' = db.history
    /\ ran' = db.ran

InitTx ==
    /\ banner \in Banners
    /\ \/ table = FALSE /\ history = {}
       \/ table = TRUE /\ history \in {{r} : r \in LeftoverRows}
    /\ mutex = Free
    /\ frame = [p \in Procs |-> IdleFrame]
    /\ ran = [id \in Identities |-> 0]
    /\ last = [ok |-> FALSE, migrations |-> {}]
    /\ aux = [kind |-> "tx", phase |-> "idle", committed |-> View,
              before |-> View, undone |-> View]

(* Lines 93-97: db.BeginTx; on its error panic(err), else Apply(tx, ...)   *)
(* is called.                                                              *)
BeginTx(p) ==
    /\ aux.kind = "tx"
    /\ aux.phase # "tx"
    /\ \/ /\ aux' = [aux EXCEPT !.phase = "panic", !.before = aux.committed,
                                !.undone = aux.committed]
          /\ UNCHANGED frame
       \/ /\ aux' = [aux EXCEPT !.phase = "tx", !.before = aux.committed,
                                !.undone = aux.committed]
          /\ Set(p, [IdleFrame EXCEPT !.pc = "lock"])
    /\ UNCHANGED <<banner, table, history, mutex, ran, last>>

(* Variant: the wrapper commits whatever Apply returned.                   *)
ApplyOkAlways(ok) == TRUE

(* line 97: err == nil                                                     *)
ApplyOk(ok) == ok

(* Apply has returned to MustMigrate.                                      *)
Returned(p) == aux.kind = "tx" /\ aux.phase = "tx" /\ frame[p].pc = "idle"

(* Lines 98-101: tx.Rollback(), whose error is printed only, then panic.   *)
(* The transaction is gone whether Rollback returns an error or not.       *)
Rollback(p) ==
    /\ Returned(p)
    /\ ~ApplyOk(last.ok)
    /\ Restore(aux.committed)
    /\ aux' = [aux EXCEPT !.phase = "panic", !.undone = View]
    /\ UNCHANGED <<banner, mutex, frame, last>>

(* Lines 103-105: tx.Commit(); on its error the transaction is lost and    *)
(* MustMigrate panics.                                                     *)
Commit(p) ==
    /\ Returned(p)
    /\ ApplyOk(last.ok)
    /\ \/ /\ aux' = [aux EXCEPT !.phase = "committed", !.committed = View]
          /\ UNCHANGED <<table, history, ran>>
       \/ /\ aux' = [aux EXCEPT !.phase = "panic"]
          /\ Restore(aux.committed)
    /\ UNCHANGED <<banner, mutex, frame, last>>

NextTx ==
    \E p \in {"c1"} :
        \/ BeginTx(p)
        \/ Lock(p)
        \/ Version(p)
        \/ CreateTable(p)
        \/ History(p)
        \/ Insert(p)
        \/ ExecStmt(p)
        \/ UpdateFailed(p)
        \/ UpdateSuccess(p)
        \/ Return(p)
        \/ Rollback(p)
        \/ Commit(p)

SpecTx == InitTx /\ [][NextTx]_vars

----------------------------------------------------------------------------
(* The scripts of one schema folder: parseMigrations (parse.go) reads the  *)
(* folder, takes the version of every *.sql file from its name, and Apply  *)
(* orders the migrations of the group.                                     *)
MaxStemLen == 2

NameRunes == {"0", "1", "9", "a"}

Suffix == <<".", "s", "q", "l">>

FileNames ==
    {stem \o Suffix : stem \in UNION {[1..n -> NameRunes] : n \in 1..MaxStemLen}}

(* The bytes of the runes in file names.                                   *)
Byte(r) ==
    CASE r = "." -> 46 [] r = "0" -> 48 [] r = "1" -> 49 [] r = "9" -> 57
      [] r = "a" -> 97 [] r = "l" -> 108 [] r = "q" -> 113 [] r = "s" -> 115

(* a < b on Go strings: byte by byte, a prefix first.                      *)
RECURSIVE StringLess(_, _)
StringLess(a, b) ==
    IF b = <<>> THEN FALSE
    ELSE IF a = <<>> THEN TRUE
    ELSE IF Head(a) # Head(b) THEN Byte(Head(a)) < Byte(Head(b))
    ELSE StringLess(Tail(a), Tail(b))

(* ioutil.ReadDir: the entries of the folder sorted by file name.          *)
ReadDir(names) ==
    CHOOSE s \in [1..Cardinality(names) -> names] :
        \A i \in 1..Len(s), j \in 1..Len(s) : i < j => StringLess(s[i], s[j])

HasSuffix(name, suffix) ==
    /\ Len(name) >= Len(suffix)
    /\ SubSeq(name, Len(name) - Len(suffix) + 1, Len(name)) = suffix

Digit(r) == CASE r = "0" -> 0 [] r = "1" -> 1 [] r = "9" -> 9 [] OTHER -> -1

(* strconv.ParseInt(digits, 10, 64); the names here stay far below 2^63.   *)
RECURSIVE ParseInt(_)
ParseInt(digits) ==
    IF digits = <<>> THEN 0
    ELSE 10 * ParseInt(SubSeq(digits, 1, Len(digits) - 1)) + Digit(digits[Len(digits)])

extractVersion(name) ==
    LET sb == SelectSeq(name, LAMBDA r : Digit(r) >= 0) IN
    IF Len(sb) = 0 THEN -1 ELSE ParseInt(sb)

(* Lines 70-93 of parse.go: the migrations of the folder in the order of   *)
(* ReadDir, or the error of a file name without a digit.                   *)
RECURSIVE parseFiles(_)
parseFiles(files) ==
    IF files = <<>> THEN [migrations |-> <<>>, err |-> Nil]
    ELSE IF ~HasSuffix(Head(files), Suffix) THEN parseFiles(Tail(files))
    ELSE IF extractVersion(Head(files)) = -1
        THEN [migrations |-> <<>>, err |-> <<"invalid migration file name", Head(files)>>]
    ELSE LET rest == parseFiles(Tail(files)) IN
         IF rest.err # Nil THEN rest
         ELSE [migrations |->
                  <<[Group |-> "g", Version |-> extractVersion(Head(files)),
                     Statements |-> << <<"a">> >>, ScriptName |-> Head(files)]>>
                  \o rest.migrations,
               err |-> Nil]

parseMigrations(names) == parseFiles(ReadDir(names))

InitFolder ==
    /\ AtRest
    /\ aux \in {[kind |-> "folder", files |-> {a, b}, out |-> <<>>] :
                    a \in FileNames, b \in FileNames}

(* The folder is parsed and its migrations are applied to an empty         *)
(* history: out is the parse error, or the order in which Apply starts     *)
(* the migrations (lines 158-161, 172-173 of migration.go).                *)
Evaluate ==
    /\ aux.kind = "folder"
    /\ aux.out = <<>>
    /\ LET parsed == parseMigrations(aux.files) IN
       IF parsed.err # Nil
       THEN aux' = [aux EXCEPT !.out = <<parsed>>]
       ELSE \E order \in SortSlice(parsed.migrations) :
                aux' = [aux EXCEPT !.out = <<[migrations |-> order, err |-> Nil]>>]
    /\ UNCHANGED engine

SpecFolder == InitFolder /\ [][Evaluate]_vars

----------------------------------------------------------------------------
(* Apply with fair scheduling                                              *)
(*                                                                         *)
(* Each call supplies at most one migration.  A goroutine inside Apply     *)
(* goes on running, and every database call returns: weak fairness of the  *)
(* steps after Lock.  sync.Mutex hands the lock to a goroutine that has    *)
(* waited for it (starvation mode) however often other goroutines ask      *)
(* for it: strong fairness of Lock.  Nobody has to call Apply.             *)
LiveInputs == {migs \in Inputs : Len(migs) <= 1}

Step(p) ==
    \/ Version(p)
    \/ CreateTable(p)
    \/ HistoryFrom(p, LiveInputs)
    \/ Insert(p)
    \/ ExecStmt(p)
    \/ UpdateFailed(p)
    \/ UpdateSuccess(p)
    \/ Return(p)

NextLive ==
    \E p \in Procs :
        \/ Call(p)
        \/ Lock(p)
        \/ Version(p)
        \/ CreateTable(p)
        \/ HistoryFrom(p, LiveInputs)
        \/ Insert(p)
        \/ ExecStmt(p)
        \/ UpdateFailed(p)
        \/ UpdateSuccess(p)
        \/ Return(p)

Fairness == \A p \in Procs : SF_vars(Lock(p)) /\ WF_vars(Step(p))

SpecLive == Init /\ [][NextLive]_vars /\ Fairness

----------------------------------------------------------------------------
(* Vocabulary of the properties                                            *)

InCall(p) == frame[p].pc \notin {"idle", "lock"}

Returning(p) == frame[p].pc = "ret"

RowsOf(rows, m) == {r \in rows : r.Group = m.Group /\ r.Version = m.Version}

SuccessRow(rows, m) == \E r \in RowsOf(rows, m) : r.Status = Success

(* The supplied migrations without a history row when the call began.      *)
PendingIndexes(f) ==
    {i \in 1..Len(f.migrations) : RowsOf(f.h0, f.migrations[i]) = {}}

DuplicatePending(f) ==
    \E i \in PendingIndexes(f), j \in PendingIndexes(f) :
        /\ i < j
        /\ f.migrations[i].Group = f.migrations[j].Group
        /\ f.migrations[i].Version = f.migrations[j].Version

NegativePending(f) ==
    \E i \in PendingIndexes(f) : f.migrations[i].Version < 0

Drifted(f) ==
    \E i \in 1..Len(f.migrations) :
        \E r \in RowsOf(f.h0, f.migrations[i]) :
            r.Status = Success /\ r.Checksum # hash(f.migrations[i])

DirtyAtStart(f) == \E r \in f.h0 : r.Status # Success

NothingRun(f) == f.nStmt = 0 /\ f.nWrite = 0 /\ f.started = <<>>

UnsupportedBanners ==
    {b \in Banners :
        LET s == ToLower(b) IN
        /\ ~Contains(s, <<"p","o","s","t","g","r","e","s","q","l">>)
        /\ ~Contains(s, <<"m","a","r","i","a","d","b">>)
        /\ ~Contains(s, <<"m","y","s","q","l">>)}

UnsupportedBanner == banner \in UnsupportedBanners

----------------------------------------------------------------------------
(* C1: idempotence.  When the call before this one returned nil for the    *)
(* same set of migrations and no database call of this one fails, Apply    *)
(* returns nil, has executed no statement, has issued no insert or update  *)
(* and has left the history as it was.                                     *)
C1_Idempotent ==
    \A p \in Procs :
        (Returning(p) /\ frame[p].again /\ frame[p].faults = {})
            => /\ frame[p].err = Nil
               /\ NothingRun(frame[p])
               /\ history = frame[p].h0

C1_Witness ==
    \E p \in Procs :
        /\ Returning(p) /\ frame[p].again /\ frame[p].faults = {}
        /\ Len(frame[p].migrations) >= 2
        /\ frame[p].migrations[1] # frame[p].migrations[2]
        /\ frame[p].err = Nil

(* C2: drift detection.  When a supplied migration has a success row whose *)
(* checksum differs from the recomputed one, Apply returns an error and    *)
(* has executed no statement and written no history row, whatever else is  *)
(* supplied and wherever the modified migration stands; without dirty rows *)
(* and database failures the error is the modification error.              *)
C2_DriftDetected ==
    \A p \in Procs :
        (Returning(p) /\ Drifted(frame[p]))
            => /\ frame[p].err # Nil
               /\ NothingRun(frame[p])
               /\ history = frame[p].h0
               /\ (frame[p].faults = {} /\ ~DirtyAtStart(frame[p]))
                    => frame[p].err[1] = "an already applied migration has been modified"

C2_Witness ==
    \E p \in Procs :
        /\ Returning(p)
        /\ Len(frame[p].migrations) = 2
        /\ 1 \in PendingIndexes(frame[p])
        /\ \E r \in RowsOf(frame[p].h0, frame[p].migrations[2]) :
              r.Status = Success /\ r.Checksum # hash(frame[p].migrations[2])
        /\ frame[p].err[1] = "an already applied migration has been modified"
        /\ NothingRun(frame[p])

(* C3: dirty state fails closed.  A call that found a row with a status    *)
(* other than success when it began never executes a statement or writes a *)
(* history row, and it returns an error, for every supplied set.           *)
C3_DirtyFailsClosed ==
    \A p \in Procs :
        (InCall(p) /\ DirtyAtStart(frame[p]))
            => /\ NothingRun(frame[p])
               /\ history = frame[p].h0
               /\ Returning(p) => frame[p].err # Nil

C3_Witness ==
    \E p \in Procs :
        /\ Returning(p)
        /\ \E r \in frame[p].h0 : r.Status = Failed /\ r.Group = "g" /\ r.Log # <<>>
        /\ Len(frame[p].migrations) > 0
        /\ \A i \in 1..Len(frame[p].migrations) :
              frame[p].migrations[i].Group = "h" /\ frame[p].migrations[i].Version > 0
        /\ frame[p].faults = {}
        /\ frame[p].err[1] = "migrations are dirty"

(* C4: duplicate pending versions are rejected before execution.  A call   *)
(* supplied with two pending migrations of the same group and version      *)
(* starts no migration (inserts no row, executes no statement) and returns *)
(* an error.                                                               *)
C4_DuplicatesRejected ==
    \A p \in Procs :
        (InCall(p) /\ DuplicatePending(frame[p]))
            => /\ frame[p].started = <<>>
               /\ frame[p].nStmt = 0
               /\ Returning(p) => frame[p].err # Nil

(* C5: ascending execution order within a group.  The migrations a call    *)
(* has started (row inserted) are, group by group, in strictly ascending   *)
(* version order, and when one is started every pending migration of its   *)
(* group with a smaller version has a success row.                         *)
C5_AscendingOrder ==
    \A p \in Procs :
        LET st == frame[p].started IN
        /\ \A i \in 1..Len(st), j \in 1..Len(st) :
              (i < j /\ st[i].Group = st[j].Group) => st[i].Version < st[j].Version
        /\ \A j \in 1..Len(st), i \in PendingIndexes(frame[p]) :
              LET c == frame[p].migrations[i] IN
              (c.Group = st[j].Group /\ c.Version < st[j].Version)
                  => SuccessRow(history, c)

C5_Witness ==
    \E p \in Procs :
        /\ Returning(p) /\ frame[p].err = Nil
        /\ Len(frame[p].migrations) = 2
        /\ frame[p].migrations[1].Group = frame[p].migrations[2].Group
        /\ frame[p].migrations[1].Version > frame[p].migrations[2].Version
        /\ frame[p].started = <<frame[p].migrations[2], frame[p].migrations[1]>>

(* C6: partial-batch failure.  When Apply returns the error of a failed    *)
(* statement of migration m and no insert or update of the call failed,    *)
(* every migration started before m has a success row with its checksum    *)
(* and m has a failed row whose log is the error text of execute.          *)
C6_PartialBatch ==
    \A p \in Procs :
        LET f == frame[p] IN
        (/\ Returning(p)
         /\ f.err[1] = "failed to execute migration"
         /\ f.faults \cap {"insert", "update"} = {})
            => /\ f.started # <<>>
               /\ f.started[Len(f.started)] = f.migration
               /\ \A i \in 1..(Len(f.started) - 1) :
                     \E r \in RowsOf(history, f.started[i]) :
                         r.Status = Success /\ r.Checksum = hash(f.started[i])
               /\ \E r \in RowsOf(history, f.migration) :
                     /\ r.Status = Failed
                     /\ r.Log = f.err[4]
                     /\ r.Log[1] = "failed to execute statement"
                     /\ r.Checksum = hash(f.migration)

C6_Witness ==
    \E p \in Procs :
        LET f == frame[p] IN
        /\ Returning(p)
        /\ f.err[1] = "failed to execute migration"
        /\ f.faults = {"stmt"}
        /\ Len(f.started) = 2
        /\ SuccessRow(history, f.started[1])
        /\ \E r \in RowsOf(history, f.started[2]) : r.Status = Failed

(* C7: applied migrations are never re-executed.  A success row is never   *)
(* removed or changed, no step executes a statement of a migration whose   *)
(* (group, version) has a success row, and the statements of one (group,   *)
(* version) are started at most once over all calls.                       *)
C7_NeverReexecuted ==
    /\ [][/\ \A r \in history : r.Status = Success => r \in history'
          /\ \A p \in Procs :
                frame'[p].nStmt > frame[p].nStmt
                    => ~SuccessRow(history, frame[p].migration)]_vars
    /\ [](\A id \in Identities : ran[id] <= 1)

C7_Witness ==
    \E p \in Procs :
        /\ Returning(p) /\ frame[p].err = Nil
        /\ \E i \in 1..Len(frame[p].migrations) :
              LET m == frame[p].migrations[i] IN
              /\ SuccessRow(frame[p].h0, m)
              /\ ran[<<m.Group, m.Version>>] = 1
        /\ frame[p].started # <<>>

(* C8: mutual exclusion.  At most one goroutine is between the return of   *)
(* mutex.Lock() and the return of Apply, and it is the holder of the       *)
(* mutex; every database call is a step of that goroutine.                 *)
C8_MutualExclusion ==
    \A p \in Procs :
        InCall(p) => /\ mutex = p
                     /\ \A q \in Procs \ {p} : ~InCall(q)

C8_Witness ==
    \E p \in Procs, q \in Procs :
        /\ p # q
        /\ frame[p].pc = "execute" /\ frame[p].nStmt = 1
        /\ frame[q].pc = "lock"

(* C9: an unsupported dialect has no side effects.  When the banner names  *)
(* none of postgresql, mariadb, mysql, or the version query fails, Apply   *)
(* returns the unknown-database error having issued the version query and  *)
(* nothing else: no Exec, no read of the history, table and rows as found. *)
C9_UnsupportedDialect ==
    \A p \in Procs :
        (Returning(p) /\ (UnsupportedBanner \/ "version" \in frame[p].faults))
            => /\ frame[p].err[1] = "unknown database type"
               /\ frame[p].nExec = 0
               /\ frame[p].nQuery = 1
               /\ NothingRun(frame[p])
               /\ history = frame[p].h0
               /\ table = frame[p].t0

C9_Witness ==
    \E p \in Procs :
        /\ Returning(p) /\ UnsupportedBanner /\ frame[p].faults = {}
        /\ frame[p].err[1] = "unknown database type"
        /\ ~table

(* C10: configuration errors precede every database mutation.  When Apply  *)
(* returns an error, none of its database calls failed, and the pending    *)
(* candidates hold a duplicate or a negative version, the call has written *)
(* no history row and executed no migration statement.  (The claim also    *)
(* rules out the CREATE TABLE of line 119, which every call issues before  *)
(* it loads the history.)                                                  *)
C10_ConfigErrorBeforeMutation ==
    \A p \in Procs :
        LET f == frame[p] IN
        (/\ Returning(p)
         /\ f.faults = {}
         /\ ~DirtyAtStart(f)
         /\ ~Drifted(f)
         /\ (DuplicatePending(f) \/ NegativePending(f)))
            => /\ f.err # Nil
               /\ NothingRun(f)
               /\ history = f.h0

----------------------------------------------------------------------------
(* C11  Checksum sensitivity, as claimed: two statement sequences that     *)
(* differ in the text of a statement or in the number of statements have   *)
(* different checksums.  The statements are joined with ";" before they    *)
(* are hashed, so a ";" inside a statement reads as a boundary, and the    *)
(* empty sequence reads as the sequence of one empty statement.            *)
HashComputed == aux.kind = "hash" /\ aux.sums # <<>>

C11_ChecksumSensitive ==
    (HashComputed /\ aux.S # aux.T) => aux.sums[1] # aux.sums[2]

(* A statement as the splitter of parse.go returns it: not empty, without  *)
(* a semicolon.                                                            *)
SplitterStatement(text) == text # <<>> /\ \A i \in 1..Len(text) : text[i] # ";"

SplitterStatements(stmts) == \A i \in 1..Len(stmts) : SplitterStatement(stmts[i])

(* C11  Checksum sensitivity for statements without ";": two sequences of  *)
(* non-empty statements that contain no semicolon and differ in the text   *)
(* of a statement or in the number of statements have different checksums. *)
C11_ChecksumSensitiveSplit ==
    (/\ HashComputed
     /\ aux.S # aux.T
     /\ SplitterStatements(aux.S)
     /\ SplitterStatements(aux.T))
        => aux.sums[1] # aux.sums[2]

(* One statement against the same text given as two statements.            *)
C11_Witness ==
    /\ HashComputed
    /\ aux.S = << <<"a", "b">> >>
    /\ aux.T = << <<"a">>, <<"b">> >>
    /\ aux.sums[1] # aux.sums[2]

----------------------------------------------------------------------------
(* Vocabulary of C12: the result the splitter is said to return, written   *)
(* from the text as a whole and not rune by rune.                          *)
Semicolons(text) == {i \in 1..Len(text) : text[i] = ";"}

(* The k-th ';'-terminated segment and the text after the last ';'.        *)
Segment(text, k) ==
    LET ends  == Semicolons(text)
        stop  == CHOOSE i \in ends : Cardinality({j \in ends : j < i}) = k - 1
        start == IF k = 1 THEN 1
                 ELSE 1 + CHOOSE i \in ends : Cardinality({j \in ends : j < i}) = k - 2
    IN SubSeq(text, start, stop - 1)

Remainder(text) ==
    LET ends == Semicolons(text) IN
    IF ends = {} THEN text
    ELSE SubSeq(text, 1 + (CHOOSE i \in ends : \A j \in ends : j <= i), Len(text))

Folded(s) == [i \in 1..Len(s) |-> IF s[i] \in {"\t", "\n", "\r"} THEN " " ELSE s[i]]

(* The runes of s without every space that follows a space.                *)
RECURSIVE KeepAt(_, _)
KeepAt(s, keep) ==
    IF s = <<>> THEN <<>>
    ELSE (IF Len(s) \in keep THEN KeepAt(SubSeq(s, 1, Len(s) - 1), keep) \o <<s[Len(s)]>>
          ELSE KeepAt(SubSeq(s, 1, Len(s) - 1), keep))

Collapsed(s) ==
    KeepAt(s, {i \in 1..Len(s) : ~(i > 1 /\ s[i] = " " /\ s[i - 1] = " ")})

Blank(s) == \A i \in 1..Len(s) : IsSpace(s[i])

(* Without the white space at both ends.                                   *)
Trimmed(s) ==
    IF Blank(s) THEN <<>>
    ELSE LET first == CHOOSE i \in 1..Len(s) :
                        ~IsSpace(s[i]) /\ \A j \in 1..(i - 1) : IsSpace(s[j])
             lst   == CHOOSE i \in 1..Len(s) :
                        ~IsSpace(s[i]) /\ \A j \in (i + 1)..Len(s) : IsSpace(s[j])
         IN SubSeq(s, first, lst)

Normalised(seg) == Trimmed(Collapsed(Folded(seg)))

RECURSIVE WithoutEmpty(_)
WithoutEmpty(ss) ==
    IF ss = <<>> THEN <<>>
    ELSE IF Head(ss) = <<>> THEN WithoutEmpty(Tail(ss))
    ELSE <<Head(ss)>> \o WithoutEmpty(Tail(ss))

ExpectedStatements(text) ==
    WithoutEmpty([k \in 1..Cardinality(Semicolons(text)) |-> Normalised(Segment(text, k))])

Tidy(stmt) ==
    /\ stmt # <<>>
    /\ \A i \in 1..Len(stmt) : stmt[i] # ";"
    /\ stmt[1] # " " /\ stmt[Len(stmt)] # " "
    /\ \A i \in 1..(Len(stmt) - 1) : ~(stmt[i] = " " /\ stmt[i + 1] = " ")

SplitDone == aux.kind = "split" /\ aux.out # <<>>

(* C12  Statement splitting result: parseStatementsFromString returns an   *)
(* error exactly when text that is not white space follows the last ';';   *)
(* otherwise it returns, in the order of the text, the ';'-terminated      *)
(* segments that are not empty after trimming, each with tabs, newlines    *)
(* and carriage returns folded to a space and runs of spaces collapsed;    *)
(* no returned statement is empty, holds a ';', or has a leading, a        *)
(* trailing or a doubled space.                                            *)
C12_SplitResult ==
    SplitDone =>
        LET res == aux.out[1] IN
        /\ (res.err # Nil) <=> ~Blank(Remainder(aux.text))
        /\ res.err = Nil =>
            /\ res.stmts = ExpectedStatements(aux.text)
            /\ \A i \in 1..Len(res.stmts) : Tidy(res.stmts[i])

(* A tab and a newline inside a statement become one space.               *)
C12_Witness ==
    /\ SplitDone
    /\ aux.text = <<"a", "\t", "\n", "a", ";">>
    /\ aux.out[1] = [stmts |-> << <<"a", " ", "a">> >>, err |-> Nil]

----------------------------------------------------------------------------
(* Vocabulary of C13: a banner mentions a name when the name, in any mix   *)
(* of upper and lower case, is a part of it.                               *)
SameLetter(c, d) ==
    \/ c = d
    \/ \E i \in 1..Len(Upper) : {c, d} = {Upper[i], Lower[i]}

Mentions(b, name) ==
    \E k \in 0..(Len(b) - Len(name)) :
        \A j \in 1..Len(name) : SameLetter(b[k + j], name[j])

ExpectedDialect(b) ==
    IF Mentions(b, <<"p","o","s","t","g","r","e","s","q","l">>) THEN "postgresql"
    ELSE IF \/ Mentions(b, <<"m","a","r","i","a","d","b">>)
            \/ Mentions(b, <<"m","y","s","q","l">>) THEN "mysql"
    ELSE "none"

ExpectedMark(b) ==
    CASE ExpectedDialect(b) = "postgresql" -> {"$n"}
      [] ExpectedDialect(b) = "mysql" -> {"?"}
      [] OTHER -> {}

(* C13  Dialect selection: in every call of Apply the version query is     *)
(* sent exactly once; when it answers, the dialect is PostgreSQL for a     *)
(* banner that mentions postgresql, else MySQL for one that mentions       *)
(* mariadb or mysql, else the call returns the error of an unknown         *)
(* database; every history insert and update of the call carries the       *)
(* placeholders of that dialect ($n for PostgreSQL, ? for MySQL).          *)
C13_DialectSelection ==
    \A p \in Procs :
        LET f == frame[p] IN
        /\ f.nVersion <= 1
        /\ (InCall(p) /\ f.pc # "version") => f.nVersion = 1
        /\ (InCall(p) /\ f.pc # "version" /\ "version" \notin f.faults) =>
            IF ExpectedDialect(banner) = "none"
            THEN /\ Returning(p)
                 /\ f.err # Nil
                 /\ f.err[1] = "unknown database type"
                 /\ f.nWrite = 0
            ELSE /\ f.dbType = ExpectedDialect(banner)
                 /\ f.err # Nil => f.err[1] # "unknown database type"
        /\ f.marks \subseteq ExpectedMark(banner)
        /\ f.nWrite > 0 => f.marks # {}

(* A MySQL banner in mixed case: the insert and the update of a call that  *)
(* returned nil were sent with question marks.                             *)
C13_Witness ==
    /\ banner = <<"1","2"," ","M","y","S","Q","L">>
    /\ Returning("c1")
    /\ frame["c1"].err = Nil
    /\ frame["c1"].nWrite = 2
    /\ frame["c1"].marks = {"?"}

----------------------------------------------------------------------------
(* C14  Atomicity of MustMigrate: while the transaction is open nothing of *)
(* the call is committed; when MustMigrate panics, the committed history   *)
(* table and the effects of the statements are what they were before the   *)
(* call; the transaction is committed only after Apply returned nil, and   *)
(* then every row the call wrote is committed with status success.         *)
C14_WrapperAtomic ==
    aux.kind = "tx" =>
        /\ aux.phase \in {"tx", "panic"} => aux.committed = aux.before
        /\ aux.phase = "panic" => View = aux.before
        /\ aux.phase = "committed" =>
            /\ last.ok
            /\ aux.committed = View
            /\ aux.before.history \subseteq aux.committed.history
            /\ \A r \in aux.committed.history \ aux.before.history :
                    r.Status = Success
            /\ \A id \in Identities : aux.committed.ran[id] >= aux.before.ran[id]

(* MustMigrate panicked after Apply had applied one migration and failed   *)
(* in the next: the rows and the effects of both were rolled back.         *)
C14_Witness ==
    /\ aux.kind = "tx"
    /\ aux.phase = "panic"
    /\ ~last.ok
    /\ \E r \in aux.undone.history \ aux.before.history : r.Status = Success
    /\ \E r \in aux.undone.history \ aux.before.history : r.Status = Failed
    /\ \E id \in Identities : aux.undone.ran[id] > aux.before.ran[id]
    /\ View = aux.before

----------------------------------------------------------------------------
(* C15  Alphabetical evaluation order (README): of two scripts of a schema *)
(* folder whose names carry a version, the one whose file name sorts first *)
(* alphabetically is executed first by Apply.  Stated for scripts with     *)
(* different versions, where the order of Apply is determined: it is the   *)
(* order of the numbers made of the digits of the names, so "9.sql" runs   *)
(* before "10.sql".                                                        *)
C15_AlphabeticalOrder ==
    (/\ aux.kind = "folder"
     /\ aux.out # <<>>
     /\ aux.out[1].err = Nil
     /\ Len(aux.out[1].migrations) = 2
     /\ aux.out[1].migrations[1].Version # aux.out[1].migrations[2].Version)
        => StringLess(aux.out[1].migrations[1].ScriptName,
                      aux.out[1].migrations[2].ScriptName)

----------------------------------------------------------------------------
(* Vocabulary of C16..C20                                                  *)
Keys(rows) == {<<r.Group, r.Version>> : r \in rows}

RECURSIVE StatementCount(_)
StatementCount(migs) ==
    IF migs = <<>> THEN 0
    ELSE Len(Head(migs).Statements) + StatementCount(Tail(migs))

(* The rows of the migrations the call has inserted a row for.             *)
OwnRows(f) ==
    {r \in history : \E i \in 1..Len(f.started) : r \in RowsOf(history, f.started[i])}

(* C16  Abort after the first failure: once a statement of a migration has *)
(* failed in a call of Apply, the call executes no further statement,      *)
(* starts no further migration and inserts no further history row.         *)
C16_AbortAfterFailure ==
    [][\A p \in Procs :
        ("stmt" \in frame[p].faults /\ frame'[p].pc # "idle")
            => /\ frame'[p].nStmt = frame[p].nStmt
               /\ frame'[p].started = frame[p].started
               /\ Keys(history') = Keys(history)]_vars

(* The call returns after the first of two statements failed, with a       *)
(* migration of another group not started.                                 *)
C16_Witness ==
    \E p \in Procs :
        /\ Returning(p)
        /\ "stmt" \in frame[p].faults
        /\ frame[p].nStmt = 1
        /\ Len(frame[p].stmts) = 2
        /\ frame[p].todo # {}

----------------------------------------------------------------------------
(* C17  Row before statements: a statement of a migration m is executed    *)
(* only when the call has inserted, as its latest row, a row for the       *)
(* (group, version) of m with status executing and the checksum of m; a    *)
(* call that returns the error of a failed insert has executed the         *)
(* statements of the migrations it inserted a row for and no other.        *)
C17_RowBeforeStatements ==
    /\ [][\A p \in Procs :
            frame'[p].nStmt > frame[p].nStmt =>
                LET f == frame[p]
                    m == f.migration
                IN
                /\ f.started # <<>>
                /\ f.started[Len(f.started)] = m
                /\ RowsOf(f.h0, m) = {}
                /\ \E r \in RowsOf(history, m) :
                        r.Status = Executing /\ r.Checksum = hash(m)]_vars
    /\ [](\A p \in Procs :
            (/\ Returning(p)
             /\ frame[p].err # Nil
             /\ frame[p].err[1] = "failed to insert history entry")
                => frame[p].nStmt = StatementCount(frame[p].started))

(* The insert for the second migration failed after the first had run.     *)
C17_Witness ==
    \E p \in Procs :
        /\ Returning(p)
        /\ "insert" \in frame[p].faults
        /\ Len(frame[p].started) = 1
        /\ frame[p].nStmt > 0
        /\ frame[p].migration # frame[p].started[1]

----------------------------------------------------------------------------
----------------------------------------------------------------------------
(* C19  Lock release and progress: the lock is held by a goroutine exactly *)
(* while its call of Apply runs, so it is free whenever no call runs;      *)
(* every call that runs returns, whatever path it takes; every call that   *)
(* waits for the lock gets it.                                             *)
C19_LockReleased ==
    /\ [](\A p \in Procs : mutex = p <=> InCall(p))
    /\ []((\A p \in Procs : ~InCall(p)) => mutex = Free)
    /\ \A p \in Procs : InCall(p) ~> ~InCall(p)
    /\ \A p \in Procs : (frame[p].pc = "lock") ~> (mutex = p)

(* One call waits for the lock while the other is about to return an       *)
(* error.                                                                  *)
C19_Witness ==
    \E p \in Procs, q \in Procs :
        /\ frame[p].pc = "lock"
        /\ Returning(q)
        /\ frame[q].err # Nil
        /\ mutex = q

----------------------------------------------------------------------------
(* C20  Success postcondition: when Apply returns nil, every supplied      *)
(* migration has a history row with status success and the checksum of     *)
(* the supplied statements, and no row of the history has another status.  *)
C20_SuccessPostcondition ==
    [](\A p \in Procs :
        (Returning(p) /\ frame[p].err = Nil) =>
            /\ \A i \in 1..Len(frame[p].migrations) :
                    \E r \in RowsOf(history, frame[p].migrations[i]) :
                        /\ r.Status = Success
                        /\ r.Checksum = hash(frame[p].migrations[i])
            /\ \A r \in history : r.Status = Success)

(* Nil for two migrations, one applied by this call, one found applied.    *)
C20_Witness ==
    \E p \in Procs :
        /\ Returning(p)
        /\ frame[p].err = Nil
        /\ Len(frame[p].migrations) = 2
        /\ frame[p].migrations[1] # frame[p].migrations[2]
        /\ Len(frame[p].started) = 1

====
